---- MODULE Spec2Model ----
(***************************************************************************)
(* A model of the OData batch proxy of POC_ALP (srv/src): the multipart    *)
(* envelope parser, the batch translator of DatasphereService and the      *)
(* request pipeline  batchMiddleware -> handleBatch -> errorHandler.       *)
(*                                                                         *)
(* Texts are sequences of tokens.  A token is a JavaScript substring that  *)
(* the code never looks inside ("Accept", "application/json", ...) or one  *)
(* of the substrings it searches for: "--", ":", "GET", "HTTP", "=", "&",  *)
(* "sp" (a blank), "CRLF" (\r\n) and "LF" (\n).                            *)
(***************************************************************************)
EXTENDS Integers, Sequences, FiniteSets, TLC

\* ------------------------------------------------------------------ bounds
\* The largest number of parts of a rendered inbound envelope.
MaxParts == 2

\* ------------------------------------------------------------ text helpers
\* String.prototype.trim() strips blanks and line terminators at both ends.
WhiteSpace == {"sp", "CRLF", "LF"}

\* The line terminators matched by the regular expression /\r?\n/.
LineBreak == {"CRLF", "LF"}

RECURSIVE TrimStart(_)
TrimStart(s) ==
  IF s # <<>> /\ Head(s) \in WhiteSpace THEN TrimStart(Tail(s)) ELSE s

RECURSIVE TrimEnd(_)
TrimEnd(s) ==
  IF s # <<>> /\ s[Len(s)] \in WhiteSpace
  THEN TrimEnd(SubSeq(s, 1, Len(s) - 1))
  ELSE s

Trim(s) == TrimEnd(TrimStart(s))

\* Whether the text sep occurs in s at position i.
OccursAt(s, sep, i) ==
  /\ i >= 1
  /\ i + Len(sep) - 1 <= Len(s)
  /\ SubSeq(s, i, i + Len(sep) - 1) = sep

\* The first position >= from at which sep occurs in s, 0 when there is none.
RECURSIVE IndexOf(_, _, _)
IndexOf(s, sep, from) ==
  IF from + Len(sep) - 1 > Len(s) THEN 0
  ELSE IF OccursAt(s, sep, from) THEN from
  ELSE IndexOf(s, sep, from + 1)

Includes(s, sep) == IndexOf(s, sep, 1) # 0

\* String.prototype.split(sep) for a non-empty separator: the pieces between
\* the successive occurrences of sep, always at least one piece.
RECURSIVE Split(_, _)
Split(s, sep) ==
  LET i == IndexOf(s, sep, 1)
  IN  IF i = 0 THEN <<s>>
      ELSE <<SubSeq(s, 1, i - 1)>> \o Split(SubSeq(s, i + Len(sep), Len(s)), sep)

\* split(/\r?\n/): the lines of a text.
RECURSIVE SplitLines(_)
SplitLines(s) ==
  LET brk == {i \in 1..Len(s) : s[i] \in LineBreak}
  IN  IF brk = {} THEN <<s>>
      ELSE LET i == CHOOSE k \in brk : \A j \in brk : k <= j
           IN  <<SubSeq(s, 1, i - 1)>> \o SplitLines(SubSeq(s, i + 1, Len(s)))

\* Array.prototype.join(sep).
RECURSIVE Join(_, _)
Join(ss, sep) ==
  IF ss = <<>> THEN <<>>
  ELSE IF Len(ss) = 1 THEN ss[1]
  ELSE ss[1] \o sep \o Join(Tail(ss), sep)

\* String.prototype.replace(pat, "") with a string pattern: the first
\* occurrence only.
ReplaceFirst(s, pat) ==
  LET i == IndexOf(s, pat, 1)
  IN  IF i = 0 THEN s
      ELSE SubSeq(s, 1, i - 1) \o SubSeq(s, i + Len(pat), Len(s))

\* --------------------------------------------------- batch envelope parser
boundaryDelimiter(boundary) == <<"--", boundary>>

boundaryEnd(boundary) == <<"--", boundary, "--">>

\* body.split(boundaryDelimiter).filter(part => part.trim() && part !== boundaryEnd)
batchSegments(body, boundary) ==
  SelectSeq(Split(body, boundaryDelimiter(boundary)),
            LAMBDA part : Trim(part) # <<>> /\ part # boundaryEnd(boundary))

\* line.split(/:(.+)/): the line is cut at its first colon that has at least
\* one character after it; without such a colon the value is undefined.
colonAt(line) ==
  LET cs == {i \in 1..(Len(line) - 1) : line[i] = ":"}
  IN  IF cs = {} THEN 0 ELSE CHOOSE k \in cs : \A j \in cs : k <= j

\* headerObject after the forEach over bodyLines[1..n]: every line that is
\* not blank and has a non-empty key and a value sets headerObject[key].
RECURSIVE headerObjectOf(_, _)
headerObjectOf(bodyLines, n) ==
  IF n = 0 THEN <<>>
  ELSE LET prev == headerObjectOf(bodyLines, n - 1)
           line == bodyLines[n]
           c    == colonAt(line)
       IN  IF Trim(line) = <<>> \/ c <= 1 THEN prev
           ELSE LET key   == Trim(SubSeq(line, 1, c - 1))
                    value == Trim(SubSeq(line, c + 1, Len(line)))
                IN  [k \in (DOMAIN prev) \cup {key} |->
                       IF k = key THEN value ELSE prev[k]]

\* bodyIndex after the forEach: one past the last blank line of bodyLines
\* (0 when there is none), as a count of the lines that slice() skips.
bodyIndexOf(bodyLines) ==
  LET blanks == {i \in 1..Len(bodyLines) : Trim(bodyLines[i]) = <<>>}
  IN  IF blanks = {} THEN 0 ELSE CHOOSE k \in blanks : \A j \in blanks : j <= k

\* The callback of parts.map: the first line of the trimmed part goes to the
\* variable headers, which is never read again.
parsePart(part) ==
  LET lines     == SplitLines(Trim(part))
      bodyLines == Tail(lines)
      bodyIndex == bodyIndexOf(bodyLines)
  IN  [headers |-> headerObjectOf(bodyLines, Len(bodyLines)),
       body    |-> Trim(Join(SubSeq(bodyLines, bodyIndex + 1, Len(bodyLines)),
                             <<"LF">>))]

\* A parser that returns the parts from the last to the first.
parseBatchBodyBackwards(body, boundary) ==
  LET parts == batchSegments(body, boundary)
  IN  [i \in 1..Len(parts) |-> parsePart(parts[Len(parts) + 1 - i])]

parseBatchBody(body, boundary) ==
  LET parts == batchSegments(body, boundary)
  IN  [i \in 1..Len(parts) |-> parsePart(parts[i])]

\* ------------------------------------------------------------------ errors
\* An error in flight: its class, the statusCode and errorCode handed to
\* BaseError, whether it is a BaseError, its message and the originalError
\* and retryable entries of its context ("" and FALSE when it has none).
NoError ==
  [name |-> "none", statusCode |-> 0, errorCode |-> "", isBase |-> FALSE,
   message |-> "", originalError |-> "", retryable |-> FALSE]

BaseError(name, message, statusCode, errorCode, originalError, retryable) ==
  [name |-> name, statusCode |-> statusCode, errorCode |-> errorCode,
   isBase |-> TRUE, message |-> message, originalError |-> originalError,
   retryable |-> retryable]

ValidationError(message, errorCode) ==
  BaseError("ValidationError", message, 400, errorCode, "", FALSE)

NotFoundError(message, errorCode) ==
  BaseError("NotFoundError", message, 404, errorCode, "", FALSE)

DatasphereConnectionError(message, originalError) ==
  BaseError("DatasphereConnectionError", message, 503, "ERR_4600",
            originalError, TRUE)

DatasphereAuthError(message, originalError) ==
  BaseError("DatasphereAuthError", message, 401, "ERR_4601",
            originalError, FALSE)

DatasphereTimeoutError(message, originalError) ==
  BaseError("DatasphereTimeoutError", message, 503, "ERR_4602",
            originalError, TRUE)

DatasphereModelError(message, originalError) ==
  BaseError("DatasphereModelError", message, 400, "ERR_4603",
            originalError, FALSE)

DatasphereBatchError(message, originalError) ==
  BaseError("DatasphereBatchError", message, 422, "ERR_4604",
            originalError, TRUE)

DatasphereMetadataError(message, originalError) ==
  BaseError("DatasphereMetadataError", message, 422, "ERR_4605",
            originalError, TRUE)

\* A plain Error (not a BaseError) thrown by a collaborator.
PlainError(message) ==
  [name |-> "Error", statusCode |-> 0, errorCode |-> "", isBase |-> FALSE,
   message |-> message, originalError |-> "", retryable |-> FALSE]

\* ------------------------------------------------------- batch translator
\* URLSearchParams(init): the pairs of the non-empty pieces between "&",
\* each cut at its first "=" (the value is empty without one); in names and
\* values "+" is a blank and percent escapes are decoded.
formDecode(t) ==
  CASE t = "+"   -> "sp"
    [] t = "%20" -> "sp"
    [] t = "%2B" -> "+"
    [] t = "%26" -> "&"
    [] t = "%3D" -> "="
    [] t = "%2F" -> "/"
    [] t = "%3F" -> "?"
    [] OTHER     -> t

\* The application/x-www-form-urlencoded serializer of toString(): a blank
\* becomes "+", every character that is not alphanumeric or one of *-._ is
\* percent-encoded.
formEncode(t) ==
  CASE t = "sp" -> "+"
    [] t = "+"  -> "%2B"
    [] t = "&"  -> "%26"
    [] t = "="  -> "%3D"
    [] t = "/"  -> "%2F"
    [] t = "?"  -> "%3F"
    [] OTHER    -> t

\* decodeURIComponent: percent escapes are decoded, "+" is left alone.
decodeURIComponent(s) ==
  [i \in 1..Len(s) |->
     CASE s[i] = "%20" -> "sp"
       [] s[i] = "%24metadata" -> "$metadata"
       [] s[i] = "%2B" -> "+"
       [] s[i] = "%26" -> "&"
       [] s[i] = "%3D" -> "="
       [] s[i] = "%2F" -> "/"
       [] s[i] = "%3F" -> "?"
       [] OTHER        -> s[i]]

URLSearchParams(init) ==
  LET pieces == SelectSeq(Split(init, <<"&">>), LAMBDA p : p # <<>>)
      pair(p) ==
        LET e == IndexOf(p, <<"=">>, 1)
            n == IF e = 0 THEN p ELSE SubSeq(p, 1, e - 1)
            v == IF e = 0 THEN <<>> ELSE SubSeq(p, e + 1, Len(p))
        IN  [name  |-> [i \in 1..Len(n) |-> formDecode(n[i])],
             value |-> [i \in 1..Len(v) |-> formDecode(v[i])]]
  IN  [i \in 1..Len(pieces) |-> pair(pieces[i])]

URLSearchParamsToString(params) ==
  Join([i \in 1..Len(params) |->
          [k \in 1..Len(params[i].name) |-> formEncode(params[i].name[k])]
          \o <<"=">> \o
          [k \in 1..Len(params[i].value) |-> formEncode(params[i].value[k])]],
       <<"&">>)

\* String.prototype.substring(1).
Substring1(s) == IF s = <<>> THEN <<>> ELSE Tail(s)

\* extractBatchPath: [ok |-> FALSE] stands for the TypeError of reading
\* .split of undefined, which the catch turns into a ValidationError.
extractBatchPath(batchBody, reqPath) ==
  LET afterGet == Split(batchBody, <<"GET">>)
  IN  IF Len(afterGet) < 2 THEN [ok |-> FALSE, path |-> <<>>]
      ELSE LET path     == Trim(Split(afterGet[2], <<"HTTP">>)[1])
               rootPath == ReplaceFirst(ReplaceFirst(reqPath, <<"datasphere", "/">>),
                                        <<"$batch">>)
           IN  [ok   |-> TRUE,
                path |-> Substring1(decodeURIComponent(
                           URLSearchParamsToString(
                             URLSearchParams(rootPath \o path))))]

\* Number(v) of a query value: NaN for an absent value (undefined) and for a
\* text that is no number.
Number(q) ==
  IF q.kind = "num" THEN [nan |-> FALSE, val |-> q.num]
  ELSE [nan |-> TRUE, val |-> 0]

\* x || 0 on a number: NaN and 0 are falsy.
OrZero(n) == IF n.nan \/ n.val = 0 THEN [nan |-> FALSE, val |-> 0] ELSE n

isNaN(n) == n.nan

\* A count that adds top once.
odataCountOnce(skip, top) == skip.val + top.val

\* const count = skip + top * 2
odataCount(skip, top) == skip.val + top.val * 2

\* JSON.stringify(result.data) once result.data["@odata.count"] is set: the
\* backend's own members, then the count.
JSONStringify(data, count) ==
  <<"{", data, ",", "\"@odata.count\"", ":", ToString(count), "}">>

\* An envelope that opens with the terminal marker, as the response string
\* of the transformBatchResponse of batch.middleware does.
transformBatchResponseOpenedByEnd(responseData, millis) ==
  LET batchId == <<"batch_", ToString(millis)>>
  IN  [id   |-> batchId,
       body |-> <<"--">> \o batchId \o
                <<"--", "CRLF", "Content-Type", ":", "sp", "application/http",
                  "CRLF", "CRLF",
                  "HTTP", "/1.1", "sp", "200", "sp", "OK", "CRLF",
                  "Content-Type", ":", "sp", "application/json",
                  "CRLF", "CRLF">>
                \o responseData \o <<"CRLF", "--">> \o batchId \o <<"--">>]

\* transformBatchResponse of DatasphereService, with Date.now() = millis.
transformBatchResponse(responseData, millis) ==
  LET batchId == <<"batch_", ToString(millis)>>
  IN  [id   |-> batchId,
       body |-> <<"--">> \o batchId \o
                <<"CRLF", "Content-Type", ":", "sp", "application/http",
                  "CRLF", "CRLF",
                  "HTTP", "/1.1", "sp", "200", "sp", "OK", "CRLF",
                  "Content-Type", ":", "sp", "application/json",
                  "CRLF", "CRLF">>
                \o responseData \o <<"CRLF", "--">> \o batchId \o <<"--">>]

\* -------------------------------------------------------- metadata documents
\* A metadata text is a sequence of lines and a line a sequence of items:
\* start tags <name ...>, self-closing tags <name .../>, end tags </name> and
\* the XML declaration.  An attribute is <<name, value>>, its value a text.
\* The blanks that indent a line are left out: every pass trims them or skips
\* them.
Tag(kind, name, attrs) == [kind |-> kind, name |-> name, attrs |-> attrs]

Open(name, attrs) == Tag("open", name, attrs)

Empty(name, attrs) == Tag("empty", name, attrs)

Close(name) == Tag("close", name, <<>>)

Declaration == Tag("decl", "xml", <<>>)

Attr(name, value) == <<name, value>>

\* The element names of which "Annotation" is a prefix, as "<Annotation" is
\* of their start tags.
startsWithAnnotation(name) == name \in {"Annotation", "Annotations"}

\* The element names of which "Property" is a prefix.
startsWithProperty(name) ==
  name \in {"Property", "PropertyRef", "PropertyValue"}

\* The attribute names that end in Path, so that  Path="  occurs at them.
endsWithPath(attr) == attr \in {"Path", "PropertyPath"}

\* The attribute names that end in Name, so that  Name="  occurs at them.
endsWithName(attr) == attr \in {"Name", "TypeName"}

\* The attributes of a start tag at which  Path="0  occurs.
zeroPaths(tag) ==
  {i \in 1..Len(tag.attrs) :
     /\ endsWithPath(tag.attrs[i][1])
     /\ tag.attrs[i][2] # <<>>
     /\ Head(tag.attrs[i][2]) = "0"}

\* One match of /(<Annotation[^>]*Path=")0/: [^>]* is greedy, so within a
\* start tag the match ends at the last  Path="0 ; the search goes on behind
\* the match, that is at the next tag.
replaceZeroInTag(tag) ==
  IF tag.kind \in {"open", "empty"} /\ startsWithAnnotation(tag.name)
     /\ zeroPaths(tag) # {}
  THEN LET last == CHOOSE i \in zeroPaths(tag) : \A j \in zeroPaths(tag) : j <= i
       IN  [tag EXCEPT !.attrs[last] = <<@[1], <<"_">> \o @[2]>>]
  ELSE tag

\* xml.replace(/(<Annotation[^>]*Path=")0/g, "$1_0")
replaceZeroInPath(xml) ==
  [l \in 1..Len(xml) |-> [k \in 1..Len(xml[l]) |-> replaceZeroInTag(xml[l][k])]]

\* The attributes of the tags of a line, in the order of the text.
RECURSIVE lineAttrs(_)
lineAttrs(line) ==
  IF line = <<>> THEN <<>> ELSE Head(line).attrs \o lineAttrs(Tail(line))

\* trimmedLine.match(/Name="([^"]+)"/): the first place of the line where
\* Name=" is followed by a non-empty value.
nameMatch(line) ==
  LET attrs == lineAttrs(line)
      at    == {i \in 1..Len(attrs) :
                  endsWithName(attrs[i][1]) /\ attrs[i][2] # <<>>}
  IN  IF at = {} THEN [found |-> FALSE, name |-> <<>>]
      ELSE [found |-> TRUE,
            name  |-> attrs[CHOOSE i \in at : \A j \in at : i <= j][2]]

\* The callback of filter in removePropertyNodeByName, for the line at
\* index (from 1).
keepLine(lines, index, removeSet) ==
  LET line == lines[index]
  IN  IF /\ line # <<>>
         /\ Head(line).kind \in {"open", "empty"}
         /\ startsWithProperty(Head(line).name)
         /\ nameMatch(line).found
         /\ nameMatch(line).name \in removeSet
      THEN FALSE
      ELSE line # <<>> \/ (index > 1 /\ index < Len(lines))

RECURSIVE keptLines(_, _, _)
keptLines(lines, index, removeSet) ==
  IF index > Len(lines) THEN <<>>
  ELSE (IF keepLine(lines, index, removeSet) THEN <<lines[index]>> ELSE <<>>)
       \o keptLines(lines, index + 1, removeSet)

removePropertyNodeByName(xmlContent, namesToRemove) ==
  keptLines(xmlContent, 1, namesToRemove)

\* ------------------------------------------------------------ metadata tree
\* What parseStringPromise builds of an element: an object with the
\* attributes under $ and, per child element name, the array of the children
\* of that name (in the order in which the names first appear); the empty
\* string for an element without attributes and children.  null is what a
\* tree pass returns for a node it removes.
Element(attrs, kids) == [kind |-> "elem", attrs |-> attrs, kids |-> kids]

EmptyString == [kind |-> "str", attrs |-> <<>>, kids |-> <<>>]

Null == [kind |-> "null", attrs |-> <<>>, kids |-> <<>>]

nodeOf(attrs, kids) ==
  IF attrs = <<>> /\ kids = <<>> THEN EmptyString ELSE Element(attrs, kids)

\* The child arrays kids with node added to the array of name.
addChild(kids, name, node) ==
  IF \E g \in 1..Len(kids) : kids[g].name = name
  THEN [g \in 1..Len(kids) |->
          IF kids[g].name = name
          THEN [name |-> name, nodes |-> Append(kids[g].nodes, node)]
          ELSE kids[g]]
  ELSE Append(kids, [name |-> name, nodes |-> <<node>>])

\* The items of a text, line after line.
RECURSIVE itemsOf(_)
itemsOf(xml) == IF xml = <<>> THEN <<>> ELSE Head(xml) \o itemsOf(Tail(xml))

ParseFailure == [ok |-> FALSE, name |-> "", node |-> Null]

\* The parser's run over the items: stack holds the elements that are open,
\* roots the root elements that are closed.  An end tag that does not match
\* the open element, an element left open, a second root and an empty
\* document are errors.
RECURSIVE parseItems(_, _, _)
parseItems(items, stack, roots) ==
  IF items = <<>>
  THEN IF stack = <<>> /\ Len(roots) = 1
       THEN [ok |-> TRUE, name |-> roots[1].name, node |-> roots[1].node]
       ELSE ParseFailure
  ELSE LET item == Head(items)
           rest == Tail(items)
           top  == stack[Len(stack)]
           below == SubSeq(stack, 1, Len(stack) - 1)
           attach(under, name, node) ==
             IF under = <<>>
             THEN IF roots # <<>> THEN ParseFailure
                  ELSE parseItems(rest, under, <<[name |-> name, node |-> node]>>)
             ELSE parseItems(rest,
                    [under EXCEPT ![Len(under)].kids = addChild(@, name, node)],
                    roots)
       IN  CASE item.kind = "decl"  -> parseItems(rest, stack, roots)
             [] item.kind = "open"  ->
                  IF stack = <<>> /\ roots # <<>> THEN ParseFailure
                  ELSE parseItems(rest,
                         Append(stack, [name |-> item.name, attrs |-> item.attrs,
                                        kids |-> <<>>]),
                         roots)
             [] item.kind = "empty" ->
                  attach(stack, item.name, nodeOf(item.attrs, <<>>))
             [] item.kind = "close" ->
                  IF stack = <<>> \/ top.name # item.name THEN ParseFailure
                  ELSE attach(below, top.name, nodeOf(top.attrs, top.kids))

\* parseStringPromise(xml): the root element under its name, or a rejection.
parseStringPromise(xml) == parseItems(itemsOf(xml), <<>>, <<>>)

\* obj.$?.[name]: the value of an attribute, undefined without it.
attribute(node, name) ==
  LET at == {i \in 1..Len(node.attrs) : node.attrs[i][1] = name}
  IN  IF at = {} THEN [defined |-> FALSE, value |-> <<>>]
      ELSE [defined |-> TRUE, value |-> node.attrs[CHOOSE i \in at : TRUE][2]]

\* value?.startsWith(prefix)
startsWith(a, prefix) ==
  a.defined /\ a.value # <<>> /\ Head(a.value) = prefix

\* filter(Boolean) on an array of nodes: null and the empty string are falsy.
truthy(node) == node.kind = "elem"

\* A test that takes a label for obsolete only if its String is "(obsolete)"
\* and nothing more.
isObsoleteLabelExactly(node) ==
  /\ attribute(node, "Term") = [defined |-> TRUE, value |-> <<"Common.Label">>]
  /\ attribute(node, "String") = [defined |-> TRUE, value |-> <<"(obsolete)">>]

\* obj.$?.Term === "Common.Label" && obj.$.String?.startsWith("(obsolete)")
isObsoleteLabel(node) ==
  /\ attribute(node, "Term") = [defined |-> TRUE, value |-> <<"Common.Label">>]
  /\ startsWith(attribute(node, "String"), "(obsolete)")

\* removeObsolete on a node: a string is returned as it is, an obsolete label
\* becomes null, any other object gets its child arrays mapped and filtered.
RECURSIVE removeObsolete(_)
removeObsolete(node) ==
  IF node.kind # "elem" THEN node
  ELSE IF isObsoleteLabel(node) THEN Null
  ELSE [node EXCEPT !.kids =
          [g \in 1..Len(node.kids) |->
             [name  |-> node.kids[g].name,
              nodes |-> SelectSeq(
                          [i \in 1..Len(node.kids[g].nodes) |->
                             removeObsolete(node.kids[g].nodes[i])],
                          truthy)]]]

\* removeUnderscores on a node, with obj.$?.Name?.startsWith("_") as the
\* test.
RECURSIVE removeUnderscores(_)
removeUnderscores(node) ==
  IF node.kind # "elem" THEN node
  ELSE IF startsWith(attribute(node, "Name"), "_") THEN Null
  ELSE [node EXCEPT !.kids =
          [g \in 1..Len(node.kids) |->
             [name  |-> node.kids[g].name,
              nodes |-> SelectSeq(
                          [i \in 1..Len(node.kids[g].nodes) |->
                             removeUnderscores(node.kids[g].nodes[i])],
                          truthy)]]]

\* new Builder().buildObject: the declaration, then every element on a line
\* of its own, the children between the start and the end tag of their
\* parent, array after array; an element without children, the empty string
\* and null are self-closing tags.
RECURSIVE buildNode(_, _)
RECURSIVE buildNodes(_, _)
RECURSIVE buildKids(_)
buildNode(name, node) ==
  LET inner == buildKids(node.kids)
  IN  IF inner = <<>> THEN << <<Empty(name, node.attrs)>> >>
      ELSE << <<Open(name, node.attrs)>> >> \o inner \o << <<Close(name)>> >>

buildNodes(name, nodes) ==
  IF nodes = <<>> THEN <<>>
  ELSE buildNode(name, Head(nodes)) \o buildNodes(name, Tail(nodes))

buildKids(kids) ==
  IF kids = <<>> THEN <<>>
  ELSE buildNodes(Head(kids).name, Head(kids).nodes) \o buildKids(Tail(kids))

buildObject(root) == << <<Declaration>> >> \o buildNode(root.name, root.node)

\* findAllAnnotations: the objects with a Target attribute and an Annotation
\* member, an object before the objects below it.
RECURSIVE findAllAnnotations(_)
RECURSIVE findAllInNodes(_)
RECURSIVE findAllInKids(_)
findAllAnnotations(node) ==
  IF node.kind # "elem" THEN <<>>
  ELSE (IF /\ attribute(node, "Target").value # <<>>
           /\ \E g \in 1..Len(node.kids) : node.kids[g].name = "Annotation"
        THEN <<node>> ELSE <<>>)
       \o findAllInKids(node.kids)

findAllInNodes(nodes) ==
  IF nodes = <<>> THEN <<>>
  ELSE findAllAnnotations(Head(nodes)) \o findAllInNodes(Tail(nodes))

findAllInKids(kids) ==
  IF kids = <<>> THEN <<>>
  ELSE findAllInNodes(Head(kids).nodes) \o findAllInKids(Tail(kids))

\* annotations.some(ann => ann?.$?.Term === "Common.Label")
hasCommonLabel(annotationsElement) ==
  \E g \in 1..Len(annotationsElement.kids) :
    /\ annotationsElement.kids[g].name = "Annotation"
    /\ \E i \in 1..Len(annotationsElement.kids[g].nodes) :
         attribute(annotationsElement.kids[g].nodes[i], "Term") =
           [defined |-> TRUE, value |-> <<"Common.Label">>]

\* filterTargetsWithoutLabel on the parsed document: the Target values that
\* include "/_0" of the annotation objects without a Common.Label.
filterTargetsWithoutLabel(parsed) ==
  LET all  == findAllAnnotations(parsed.node)
      hits == SelectSeq(all, LAMBDA a :
                /\ Includes(attribute(a, "Target").value, <<"/", "_", "0">>)
                /\ ~hasCommonLabel(a))
  IN  [i \in 1..Len(hits) |-> attribute(hits[i], "Target").value]

\* path.substring(path.lastIndexOf("/") + 1), the whole path without a "/".
lastSegment(path) ==
  LET slashes == {i \in 1..Len(path) : path[i] = "/"}
  IN  IF slashes = {} THEN path
      ELSE SubSeq(path, (CHOOSE i \in slashes : \A j \in slashes : j <= i) + 1,
                  Len(path))

extractLastSegments(paths) == [i \in 1..Len(paths) |-> lastSegment(paths[i])]

\* A rejected promise, or a text.
Rejected == [ok |-> FALSE, text |-> <<>>]

Resolved(text) == [ok |-> TRUE, text |-> text]

\* removePrimarykeys: the Property lines named by the last segments of the
\* unlabelled targets are removed from the text; a text that does not parse
\* rejects.
removePrimarykeys(xmlContent) ==
  LET parsed == parseStringPromise(xmlContent)
  IN  IF ~parsed.ok THEN Rejected
      ELSE LET results == extractLastSegments(filterTargetsWithoutLabel(parsed))
           IN  Resolved(removePropertyNodeByName(
                          xmlContent,
                          {results[i] : i \in 1..Len(results)}))

\* cleanXML: any rejection inside becomes the rejection of cleanXML.
cleanXML(xmlContent) ==
  LET xmlWithFixedPaths     == replaceZeroInPath(xmlContent)
      xmlWithoutPrimarykeys == removePrimarykeys(xmlWithFixedPaths)
      parsedXml             == parseStringPromise(xmlWithoutPrimarykeys.text)
      cleaned               == [parsedXml EXCEPT !.node = removeObsolete(@)]
  IN  IF ~xmlWithoutPrimarykeys.ok \/ ~parsedXml.ok THEN Rejected
      ELSE Resolved(buildObject(cleaned))

\* ------------------------------------------------------------------ inputs
\* The latest value Date.now() returns in a run (the earliest is 1).
MaxMillis == 2

Millis == 1..MaxMillis

\* The boundary token of the inbound Content-Type header.
Boundaries == {"batch_id-123-456", "batch_77"}

\* A header line of a part: <<name, value>>, rendered as  name: value.
ContentTypeHttp == <<<<"Content-Type">>, <<"application/http">>>>
TransferBinary  == <<<<"Content-Transfer-Encoding">>, <<"binary">>>>
HostHeader      == <<<<"Host">>, <<"a", ":", "b">>>>

\* Embedded requests.
ReqExample   == <<"GET", "sp", "Consumption", "/", "Model", "?", "x", "=", "1",
                  "sp", "HTTP", "/1.1">>
ReqAccept    == ReqExample \o <<"CRLF", "Accept", ":", "sp", "application/json">>
ReqItems     == <<"GET", "sp", "Sales_Demo", "/", "Items", "sp", "HTTP", "/1.1">>
ReqWidgets   == <<"GET", "sp", "WID", "GET", "S", "?", "x", "=", "1",
                  "sp", "HTTP", "/1.1">>
ReqNoHttp    == <<"GET", "sp", "Model", "?", "x", "=", "1">>
ReqNoGet     == <<"POST", "sp", "Model", "sp", "HTTP", "/1.1">>
ReqPayload   == ReqExample \o <<"CRLF", "CRLF", "payload">>
ReqEscaped   == <<"GET", "sp", "Model", "?", "a", "=", "1", "%2B", "2", "&",
                  "b", "=", "c", "+", "d", "sp", "HTTP", "/1.1">>

\* The parts a client may put in an envelope.  A part with raw = TRUE is a
\* malformed one: its text is body alone, with no header block and no blank
\* line.
Part(headers, body) == [raw |-> FALSE, headers |-> headers, body |-> body]

RawPart(text) == [raw |-> TRUE, headers |-> <<>>, body |-> text]

PartPool ==
  { Part(<<ContentTypeHttp, TransferBinary>>, ReqAccept),
    Part(<<ContentTypeHttp>>, ReqItems),
    Part(<<ContentTypeHttp, HostHeader>>, ReqWidgets),
    Part(<<ContentTypeHttp, TransferBinary>>, ReqNoHttp),
    Part(<<ContentTypeHttp, TransferBinary>>, ReqNoGet),
    Part(<<ContentTypeHttp, TransferBinary>>, ReqPayload),
    Part(<<ContentTypeHttp, TransferBinary>>, ReqEscaped),
    RawPart(ReqExample),
    RawPart(ReqAccept) }

PartLists == UNION {[1..n -> PartPool] : n \in 0..MaxParts}

\* The text of one part between two delimiters.
RenderPart(p) ==
  IF p.raw THEN p.body
  ELSE Join([i \in 1..Len(p.headers) |->
               p.headers[i][1] \o <<":", "sp">> \o p.headers[i][2] \o <<"CRLF">>],
            <<>>)
       \o <<"CRLF">> \o p.body

\* The multipart rendering of the parts P under the boundary b: the
\* delimiter --b before each part, the terminal marker --b-- at the end.
Render(P, b) ==
  Join([i \in 1..Len(P) |->
          <<"--", b, "CRLF">> \o RenderPart(P[i]) \o <<"CRLF">>], <<>>)
  \o <<"--", b, "--">>

\* A body that holds a line terminator and nothing else.
BlankBody == <<"CRLF">>

\* req.path of a POST to the batch route, always with its leading slash.
ReqPaths ==
  { <<"/", "datasphere", "/", "foo", "/", "$batch">>,
    <<"/", "$batch">> }

\* A query value: absent, a numeric text with its number, or another text.
Absent == [kind |-> "absent", num |-> 0]
Num(n) == [kind |-> "num", num |-> n]
NotANumber == [kind |-> "text", num |-> 0]

\* <<$skip, $top>> of the inbound query.
QueryPairs ==
  { <<Num(10), Num(5)>>, <<Num(0), Num(10)>>, <<Absent, Absent>>,
    <<Absent, Num(5)>>, <<NotANumber, Num(5)>>, <<Num(10), NotANumber>> }

\* Content-Type of the inbound request.
ContentTypes ==
  { [multipart |-> TRUE,  hasBoundary |-> TRUE],
    [multipart |-> TRUE,  hasBoundary |-> FALSE],
    [multipart |-> FALSE, hasBoundary |-> FALSE] }

\* What getDestination can answer.
DestinationOutcomes == {"found", "nourl", "throws"}

\* The members of the backend's JSON object.
BackendData == {"\"value\":[1,2,3]", "\"value\":[]"}

\* An AxiosError of executeHttpRequest: its message, the texts among
\* "timeout", "network", "401", "403", "404" that the message includes, and
\* response.data.message ("" when the response carries none).
AxiosError(message, includes, responseMessage) ==
  [message |-> message, includes |-> includes,
   responseMessage |-> responseMessage]

AxiosErrors ==
  { AxiosError("timeout of 5000ms exceeded", {"timeout"}, ""),
    AxiosError("network error", {"network"}, ""),
    AxiosError("Request failed with status code 401", {"401"}, "unauthorized"),
    AxiosError("Request failed with status code 404", {"404"}, ""),
    AxiosError("Request failed with status code 500", {}, ""),
    AxiosError("Request failed with status code 403", {"403"}, ""),
    AxiosError("network timeout at: https://datasphere.example/Model",
               {"timeout", "network"}, ""),
    AxiosError("timeout of 4040ms exceeded", {"timeout", "404"}, ""),
    AxiosError("network socket disconnected from 10.0.0.4:4010",
               {"network", "401"}, ""),
    AxiosError("Request failed with status code 403 (request 4040)",
               {"403", "404"}, "") }

\* ------------------------------------------------------- metadata inputs
\* The largest number of Property elements of the entity type of a document,
\* and of Annotation elements of its Annotations element.
MaxKids == 2

PropertyPool ==
  { Empty("Property", <<Attr("Name", <<"_", "0">>),
                        Attr("Type", <<"Edm.String">>)>>),
    Empty("Property", <<Attr("Name", <<"_", "internal">>)>>),
    Empty("Property", <<Attr("Name", <<"internal">>)>>) }

AnnotationPool ==
  { Empty("Annotation", <<Attr("Term", <<"Common.Label">>),
                          Attr("String", <<"(obsolete)", "sp", "Foo">>)>>),
    Empty("Annotation", <<Attr("Term", <<"Common.Label">>),
                          Attr("String", <<"Key">>)>>),
    Empty("Annotation", <<Attr("Term", <<"Common.Text">>),
                          Attr("Path", <<"0">>)>>),
    Empty("Annotation", <<Attr("Term", <<"UI.Hidden">>),
                          Attr("Path", <<"0">>),
                          Attr("PropertyPath", <<"0">>)>>) }

ListsOf(pool) == UNION {[1..n -> pool] : n \in 0..MaxKids}

\* The tags of a document: a Schema with the entity type E of the properties
\* props and, if there are any, the annotations anns of the target S.E/_0.
DocumentItems(props, anns) ==
  <<Open("Schema", <<Attr("Namespace", <<"S">>)>>),
    Open("EntityType", <<Attr("Name", <<"E">>)>>)>>
  \o props
  \o <<Close("EntityType")>>
  \o (IF anns = <<>> THEN <<>>
      ELSE <<Open("Annotations",
                  <<Attr("Target", <<"S.E", "/", "_", "0">>)>>)>>
           \o anns \o <<Close("Annotations")>>)
  \o <<Close("Schema")>>

\* A text of the tags: every tag on a line of its own, or all on one line.
Layouts == {"lines", "flat"}

Layout(items, layout) ==
  IF layout = "flat" THEN <<items>>
  ELSE [i \in 1..Len(items) |-> <<items[i]>>]

\* The well-formed metadata documents a backend may answer with.
Documents ==
  {Layout(DocumentItems(props, anns), layout) :
     props \in ListsOf(PropertyPool), anns \in ListsOf(AnnotationPool),
     layout \in Layouts}

\* req.path of a GET to the datasphere routes, as the client wrote it.
GetPaths ==
  { <<"/">>,
    <<"/", "Model">>,
    <<"/", "Model", "/", "$metadata">>,
    <<"/", "Model", "/", "%24metadata">> }

\* A text whose end tag closes an element that was never opened.
MalformedDocument ==
  << <<Open("Schema", <<Attr("Namespace", <<"S">>)>>)>>,
     <<Close("EntityType")>>,
     <<Close("Schema")>> >>

\* What the backend answers to a GET of a $metadata path.
MetadataBodies ==
  { Layout(DocumentItems(
             <<Empty("Property", <<Attr("Name", <<"_", "internal">>)>>),
               Empty("Property", <<Attr("Name", <<"internal">>)>>)>>,
             <<Empty("Annotation",
                     <<Attr("Term", <<"Common.Label">>),
                       Attr("String", <<"(obsolete)", "sp", "Foo">>)>>)>>),
           "lines"),
    Layout(DocumentItems(
             <<Empty("Property", <<Attr("Name", <<"_", "0">>),
                                   Attr("Type", <<"Edm.String">>)>>)>>,
             <<Empty("Annotation", <<Attr("Term", <<"Common.Text">>),
                                     Attr("Path", <<"0">>)>>)>>),
           "flat"),
    MalformedDocument }

\* --------------------------------------------------------- documents in depth
\* What an entity type holds besides plain properties: a property with an
\* annotation of its own, written on three lines, and a key that refers to a
\* property by its name.
EntityForms ==
  { <<Empty("Property", <<Attr("Name", <<"_", "0">>),
                          Attr("Type", <<"Edm.String">>)>>)>>,
    <<Open("Property", <<Attr("Name", <<"_", "0">>),
                         Attr("Type", <<"Edm.String">>)>>),
      Empty("Annotation", <<Attr("Term", <<"Common.Label">>),
                            Attr("String", <<"(obsolete)", "sp", "Foo">>)>>),
      Close("Property")>>,
    <<Open("Key", <<>>),
      Empty("PropertyRef", <<Attr("Name", <<"_", "0">>)>>),
      Close("Key")>> }

\* An Annotations element of a target with the tags inside it.
Annotations(target, inside) ==
  IF inside = <<>> THEN <<Empty("Annotations", <<Attr("Target", target)>>)>>
  ELSE <<Open("Annotations", <<Attr("Target", target)>>)>>
       \o inside \o <<Close("Annotations")>>

\* The Annotations elements of a schema: without annotations, with a label,
\* with a path that is 0, with a path that begins with 0, with a path and a
\* property path that are 0, and with an
\* annotation that holds a record, an empty collection and an annotation of
\* its own.
AnnotationsForms ==
  { Annotations(<<"S.E", "/", "_", "0">>, <<>>),
    Annotations(<<"S.E", "/", "_", "0">>,
      <<Empty("Annotation", <<Attr("Term", <<"Common.Label">>),
                              Attr("String", <<"Key">>)>>)>>),
    Annotations(<<"S.E", "/", "_", "0">>,
      <<Empty("Annotation", <<Attr("Term", <<"Common.Text">>),
                              Attr("Path", <<"0">>)>>)>>),
    Annotations(<<"S.E", "/", "_", "0">>,
      <<Empty("Annotation", <<Attr("Term", <<"Common.Text">>),
                              Attr("Path", <<"0", "ABC">>)>>)>>),
    Annotations(<<"S.E", "/", "_", "0">>,
      <<Empty("Annotation", <<Attr("Term", <<"UI.Hidden">>),
                              Attr("Path", <<"0">>),
                              Attr("PropertyPath", <<"0">>)>>)>>),
    Annotations(<<"S.E", "/", "internal">>,
      <<Open("Annotation", <<Attr("Term", <<"UI.Facets">>)>>),
        Open("Record", <<>>),
        Empty("PropertyValue", <<Attr("Property", <<"Value">>),
                                 Attr("Path", <<"0">>)>>),
        Close("Record"),
        Empty("Collection", <<>>),
        Empty("Annotation", <<Attr("Term", <<"Common.Label">>),
                              Attr("String", <<"(obsolete)", "sp", "Foo">>)>>),
        Close("Annotation")>>) }

\* The tags of a schema with the entity type E of the forms inside and the
\* Annotations elements sections.
SchemaItems(inside, sections) ==
  <<Open("Schema", <<Attr("Namespace", <<"S">>)>>),
    Open("EntityType", <<Attr("Name", <<"E">>)>>)>>
  \o itemsOf(inside)
  \o <<Close("EntityType")>>
  \o itemsOf(sections)
  \o <<Close("Schema")>>

\* Every tag on a line of its own, with a blank line before the first, after
\* the second and after the last.
Spaced(items) ==
  << <<>>, <<items[1]>>, <<items[2]>>, <<>> >>
  \o [i \in 1..(Len(items) - 2) |-> <<items[i + 2]>>]
  \o << <<>> >>

DeepLayouts == {"lines", "flat", "spaced"}

DeepLayout(items, layout) ==
  IF layout = "spaced" THEN Spaced(items) ELSE Layout(items, layout)

\* Well-formed metadata documents with elements inside elements.
DeepDocuments ==
  {DeepLayout(SchemaItems(inside, sections), layout) :
     inside \in ListsOf(EntityForms), sections \in ListsOf(AnnotationsForms),
     layout \in DeepLayouts}

\* The names handed to removePropertyNodeByName.
NameSets == { {}, {<<"_", "0">>}, {<<"E">>, <<"internal">>} }

\* -------------------------------------------------------------------- state
VARIABLES
  pc,             \* where the request is
  req,            \* the inbound request
  sentParts,      \* the parts the client rendered into req.body
  batch,          \* req.batch
  fwdPath,        \* the path handed to getData
  outbound,       \* the number of executeHttpRequest calls made
  result,         \* what getData returned
  json,           \* JSON.stringify(result.data)
  batchResponse,  \* what processBatchRequest returned
  err,            \* the error thrown, on its way to errorHandler
  res,            \* the response written to the caller
  steps,          \* the steps taken so far, in order
  raised,         \* the message of the Error, no BaseError and no
                  \* AxiosError, that a collaborator has thrown ("" if none)
  metadata,       \* the metadata text the backend answered with, the one
                  \* in response.data and the one sent to the caller
  cleaner,        \* a run of cleanXML, step by step
  now,            \* Date.now()
  envelopes       \* the batch requests in flight side by side

vars == <<pc, req, sentParts, batch, fwdPath, outbound, result, json,
          batchResponse, err, res, steps, raised, metadata, cleaner, now,
          envelopes>>

\* The variables of the routes.
routes == <<pc, req, sentParts, batch, fwdPath, outbound, result, json,
            batchResponse, err, res, steps, raised, metadata>>

\* What the actions of the batch route leave alone besides the variables
\* they name: all of them beside, all but getData's aside as well.
beside == <<metadata, cleaner, now, envelopes>>

aside == <<raised, beside>>

\* What belongs to the batch route alone.
batchOnly == <<sentParts, batch, json, batchResponse, steps>>

NoMetadata == [backend |-> <<>>, data |-> <<>>, sent |-> <<>>]

\* No run of cleanXML.
NoCleaner ==
  [stage |-> "none", document |-> <<>>, text |-> <<>>,
   parsedXml |-> ParseFailure, outputs |-> <<>>]

\* The batch requests that are handled side by side.
MaxRequests == 3

Requests == 1..MaxRequests

NoEnvelope == [stage |-> "none", id |-> <<>>]

NoRequest ==
  [method |-> "",
   contentType |-> [multipart |-> FALSE, hasBoundary |-> FALSE],
   boundary |-> "", body |-> <<>>, rendered |-> FALSE, path |-> <<>>,
   skip |-> Absent, top |-> Absent]

NoBatch == [defined |-> FALSE, parts |-> <<>>]

NoResult == [defined |-> FALSE, hasData |-> FALSE, data |-> ""]

NoBatchResponse == [built |-> FALSE, id |-> <<>>, body |-> <<>>]

NoResponse ==
  [sent |-> FALSE, status |-> 0, kind |-> "", odataVersion |-> "",
   contentType |-> <<>>, body |-> <<>>, message |-> "", times |-> 0]

InitRoutes ==
  /\ pc = "idle"
  /\ req = NoRequest
  /\ sentParts = <<>>
  /\ batch = NoBatch
  /\ fwdPath = <<>>
  /\ outbound = 0
  /\ result = NoResult
  /\ json = <<>>
  /\ batchResponse = NoBatchResponse
  /\ err = NoError
  /\ res = NoResponse
  /\ steps = <<>>
  /\ raised = ""
  /\ metadata = NoMetadata

InitCleaner == cleaner = NoCleaner

InitEnvelopes ==
  /\ now = 1
  /\ envelopes = [r \in Requests |-> NoEnvelope]

Init == InitRoutes /\ InitCleaner /\ InitEnvelopes

\* A POST to /datasphere/*$batch arrives.
Receive ==
  /\ pc = "idle"
  /\ \E ct \in ContentTypes, b \in Boundaries, P \in PartLists,
        rendered \in BOOLEAN, path \in ReqPaths, q \in QueryPairs :
       /\ ~rendered => P = <<>>
       /\ req' = [method |-> "POST", contentType |-> ct, boundary |-> b,
                  body |-> IF rendered THEN Render(P, b) ELSE BlankBody,
                  rendered |-> rendered, path |-> path,
                  skip |-> q[1], top |-> q[2]]
       /\ sentParts' = P
  /\ pc' = "middleware"
  /\ UNCHANGED <<batch, fwdPath, outbound, result, json, batchResponse, err,
                 res, steps>>
  /\ UNCHANGED aside

\* ------------------------------------------------------------- the pipeline
\* A catch of batchMiddleware that logs the error and writes no response.
BatchParseFailureLogged(message) == res

\* res.status(status).json(...) of batchMiddleware's catch.
BatchParseFailure(message) ==
  [sent |-> TRUE, status |-> 400, kind |-> "json", odataVersion |-> "",
   contentType |-> <<"application/json">>, body |-> <<>>,
   message |-> message, times |-> res.times + 1]

\* A match that every Content-Type header passes.
boundaryMatchAlways(contentType) == TRUE

\* contentType.match(/boundary=(.+)$/): whether the header carries a
\* boundary= parameter with a value.
boundaryMatch(contentType) == contentType.hasBoundary

\* batchMiddleware: a multipart/mixed request is parsed into req.batch, any
\* other goes on untouched; a missing boundary is answered with 400 here.
batchMiddleware ==
  /\ pc = "middleware"
  /\ IF req.contentType.multipart
     THEN IF ~boundaryMatch(req.contentType)
          THEN /\ res' = BatchParseFailure("Missing boundary in Content-Type header")
               /\ steps' = Append(steps, "failed")
               /\ pc' = "done"
               /\ UNCHANGED batch
          ELSE /\ batch' = [defined |-> TRUE,
                            parts |-> parseBatchBody(req.body, req.boundary)]
               /\ steps' = Append(steps, "parsed")
               /\ pc' = "handler"
               /\ UNCHANGED res
     ELSE /\ pc' = "handler"
          /\ UNCHANGED <<batch, res, steps>>
  /\ UNCHANGED <<req, sentParts, fwdPath, outbound, result, json,
                 batchResponse, err>>
  /\ UNCHANGED aside

\* The catch of processBatchRequest: a BaseError is thrown on as it is, any
\* other Error is wrapped in a DatasphereBatchError that keeps its message.
batchCatch(error) ==
  IF error.isBase THEN error
  ELSE DatasphereBatchError("Failed to process batch request", error.message)

\* processBatchRequest up to its first await: the check of req.batch[0] and
\* extractBatchPath.
processBatchRequest ==
  /\ pc = "handler"
  /\ IF ~batch.defined \/ Len(batch.parts) = 0
     THEN /\ err' = batchCatch(ValidationError("Invalid batch request format",
                                               "ERR_4002"))
          /\ steps' = Append(steps, "failed")
          /\ pc' = "error"
          /\ UNCHANGED fwdPath
     ELSE LET x == extractBatchPath(batch.parts[1].body, req.path)
          IN  IF ~x.ok
              THEN /\ err' = batchCatch(ValidationError(
                               "Failed to extract batch path from request",
                               "ERR_4002"))
                   /\ steps' = Append(steps, "failed")
                   /\ pc' = "error"
                   /\ UNCHANGED fwdPath
              ELSE /\ fwdPath' = x.path
                   /\ steps' = Append(steps, "extracted")
                   /\ pc' = "destination"
                   /\ UNCHANGED err
  /\ UNCHANGED <<req, sentParts, batch, outbound, result, json, batchResponse,
                 res>>
  /\ UNCHANGED aside

\* getDestinationConfig, awaited by getData outside its try block.
getDestinationConfig ==
  /\ pc = "destination"
  /\ \E d \in DestinationOutcomes :
       CASE d = "found" ->
              /\ pc' = "http"
              /\ UNCHANGED <<err, steps, raised>>
         [] d = "nourl" ->
              /\ err' = batchCatch(NotFoundError(
                          "Destination not found or missing URL", "ERR_5002"))
              /\ steps' = Append(steps, "failed")
              /\ pc' = "error"
              /\ UNCHANGED raised
         [] d = "throws" ->
              /\ err' = batchCatch(PlainError("destination lookup failed"))
              /\ steps' = Append(steps, "failed")
              /\ pc' = "error"
              /\ raised' = "destination lookup failed"
  /\ UNCHANGED <<req, sentParts, batch, fwdPath, outbound, result, json,
                 batchResponse, res>>
  /\ UNCHANGED beside

\* A catch that asks for the $metadata path before it looks at the message.
classifyAxiosErrorByPath(error, isMetadata) ==
  LET original == IF error.responseMessage # "" THEN error.responseMessage
                  ELSE error.message
  IN  IF isMetadata
      THEN DatasphereMetadataError("Failed to retrieve Datasphere metadata.",
                                   original)
      ELSE IF "timeout" \in error.includes
      THEN DatasphereTimeoutError(
             "Request to Datasphere timed out. Please try again.", original)
      ELSE IF "network" \in error.includes
      THEN DatasphereConnectionError(
             "Failed to connect to Datasphere. Please check your network connection.",
             original)
      ELSE IF "401" \in error.includes \/ "403" \in error.includes
      THEN DatasphereAuthError(
             "Authentication failed. Please check your credentials.", original)
      ELSE IF "404" \in error.includes
      THEN DatasphereModelError(
             "The requested Datasphere model or resource was not found.", original)
      ELSE DatasphereConnectionError(
             "An error occurred while communicating with Datasphere.", original)

\* The catch of getData for an AxiosError: the first test that matches the
\* message decides the error; context.originalError is
\* response.data.message || message.
classifyAxiosError(error, isMetadata) ==
  LET original == IF error.responseMessage # "" THEN error.responseMessage
                  ELSE error.message
  IN  IF "timeout" \in error.includes
      THEN DatasphereTimeoutError(
             "Request to Datasphere timed out. Please try again.", original)
      ELSE IF "network" \in error.includes
      THEN DatasphereConnectionError(
             "Failed to connect to Datasphere. Please check your network connection.",
             original)
      ELSE IF "401" \in error.includes \/ "403" \in error.includes
      THEN DatasphereAuthError(
             "Authentication failed. Please check your credentials.", original)
      ELSE IF "404" \in error.includes
      THEN DatasphereModelError(
             "The requested Datasphere model or resource was not found.", original)
      ELSE IF isMetadata
      THEN DatasphereMetadataError("Failed to retrieve Datasphere metadata.",
                                   original)
      ELSE DatasphereConnectionError(
             "An error occurred while communicating with Datasphere.", original)

\* A throw that sends a retryable error back to the outbound call.
throwOrRetry(error) == IF error.retryable THEN "http" ELSE "error"

\* Where a request goes on after a throw in getData's catch: getData is
\* left, and so is its caller, for the error handling of the route.
throwTo(error) == "error"

\* executeHttpRequest inside getData's try block, and getData's catch.
executeHttpRequest ==
  /\ pc = "http"
  /\ outbound' = outbound + 1
  /\ \/ \E d \in BackendData :
          /\ result' = [defined |-> TRUE, hasData |-> TRUE, data |-> d]
          /\ steps' = Append(steps, "forwarded")
          /\ pc' = "resume"
          /\ UNCHANGED <<err, raised>>
     \/ /\ result' = [defined |-> TRUE, hasData |-> FALSE, data |-> ""]
        /\ steps' = Append(steps, "forwarded")
        /\ pc' = "resume"
        /\ UNCHANGED <<err, raised>>
     \/ \E e \in AxiosErrors :
          /\ err' = batchCatch(classifyAxiosError(e, Includes(req.path, <<"$metadata">>)))
          /\ steps' = Append(steps, "failed")
          /\ pc' = throwTo(err')
          /\ UNCHANGED <<result, raised>>
     \/ \* an error that is no AxiosError leaves the catch without a throw:
        \* getData returns undefined
        /\ result' = NoResult
        /\ pc' = "resume"
        /\ raised' = "socket hang up"
        /\ UNCHANGED <<err, steps>>
  /\ UNCHANGED <<req, sentParts, batch, fwdPath, json, batchResponse, res>>
  /\ UNCHANGED beside

\* A data check that lets every result through.
noDataUnchecked(r) == FALSE

\* !result?.data: getData returned undefined, or a response without data.
noData(r) == ~r.defined \/ ~r.hasData

\* processBatchRequest after getData has returned: the data check, the
\* pagination count and transformBatchResponse.
resumeBatchRequest ==
  /\ pc = "resume"
  /\ IF noData(result)
     THEN /\ err' = batchCatch(DatasphereBatchError(
                      "Batch processing returned no data", ""))
          /\ steps' = Append(steps, "failed")
          /\ pc' = "error"
          /\ UNCHANGED <<json, batchResponse>>
     ELSE LET skip == OrZero(Number(req.skip))
              top  == OrZero(Number(req.top))
          IN  IF isNaN(skip) \/ isNaN(top)
              THEN /\ err' = batchCatch(DatasphereBatchError(
                               "Invalid pagination parameters", ""))
                   /\ steps' = Append(steps, "failed")
                   /\ pc' = "error"
                   /\ UNCHANGED <<json, batchResponse>>
              ELSE \E millis \in Millis :
                     LET responseData == JSONStringify(result.data,
                                                       odataCount(skip, top))
                         transformed  == transformBatchResponse(responseData, millis)
                     IN  /\ json' = responseData
                         /\ batchResponse' = [built |-> TRUE,
                                              id    |-> transformed.id,
                                              body  |-> transformed.body]
                         /\ steps' = Append(steps, "enveloped")
                         /\ pc' = "respond"
                         /\ UNCHANGED err
  /\ UNCHANGED <<req, sentParts, batch, fwdPath, outbound, result, res>>
  /\ UNCHANGED aside

\* Headers whose boundary is the one of the inbound request of the example.
setBatchResponseHeadersInbound(batchId) ==
  [odataVersion |-> "4.0",
   contentType  |-> <<"multipart/mixed", ";", "sp", "boundary", "=",
                      "batch_id-123-456">>]

\* setBatchResponseHeaders: the two headers set on the response.
setBatchResponseHeaders(batchId) ==
  [odataVersion |-> "4.0",
   contentType  |-> <<"multipart/mixed", ";", "sp", "boundary", "=">>
                    \o batchId]

\* handleBatch after processBatchRequest has returned:
\* setBatchResponseHeaders and res.send.
handleBatch ==
  /\ pc = "respond"
  /\ LET headers == setBatchResponseHeaders(batchResponse.id)
     IN  res' = [sent |-> TRUE, status |-> 200, kind |-> "multipart",
                 odataVersion |-> headers.odataVersion,
                 contentType |-> headers.contentType,
                 body |-> batchResponse.body, message |-> "",
                 times |-> res.times + 1]
  /\ steps' = Append(steps, "sent")
  /\ pc' = "done"
  /\ UNCHANGED <<req, sentParts, batch, fwdPath, outbound, result, json,
                 batchResponse, err>>
  /\ UNCHANGED aside

\* asyncHandler hands the rejection to next, and errorHandler answers it.
errorHandler ==
  /\ pc = "error"
  /\ res' = [sent |-> TRUE, status |-> 500, kind |-> "json",
             odataVersion |-> "", contentType |-> <<"application/json">>,
             body |-> <<>>,
             message |-> IF err.originalError # "" THEN err.originalError
                         ELSE err.message,
             times |-> res.times + 1]
  /\ pc' = "done"
  /\ UNCHANGED <<req, sentParts, batch, fwdPath, outbound, result, json,
                 batchResponse, err, steps>>
  /\ UNCHANGED aside

Next ==
  \/ Receive
  \/ batchMiddleware
  \/ processBatchRequest
  \/ getDestinationConfig
  \/ executeHttpRequest
  \/ resumeBatchRequest
  \/ handleBatch
  \/ errorHandler

Spec == Init /\ [][Next]_vars

\* ------------------------------------------------------------ the data route
\* A GET to /datasphere or /datasphere/* arrives: the first goes to getRoot,
\* the second to getData.
ReceiveGet ==
  /\ pc = "idle"
  /\ \E path \in GetPaths :
       /\ req' = [NoRequest EXCEPT !.method = "GET", !.path = path]
       /\ pc' = IF path = <<"/">> THEN "root" ELSE "controller"
  /\ UNCHANGED <<fwdPath, outbound, result, err, res>>
  /\ UNCHANGED <<batchOnly, aside>>

\* getRoot: handleRoot always throws.
getRoot ==
  /\ pc = "root"
  /\ err' = ValidationError("Please define a path to a Datasphere model",
                            "ERR_4001")
  /\ pc' = "error"
  /\ UNCHANGED <<req, fwdPath, outbound, result, res>>
  /\ UNCHANGED <<batchOnly, aside>>

\* validateAndProcessPath: the content type is undefined (the empty text
\* here) for a path without "$metadata".
validateAndProcessPath(path) ==
  IF path = <<>>
  THEN [ok |-> FALSE, contentType |-> <<>>]
  ELSE [ok |-> TRUE,
        contentType |-> IF Includes(path, <<"$metadata">>) THEN <<"text/xml">>
                        ELSE <<>>]

\* The controller's getData up to its await: the path is the decoded
\* wildcard parameter of the route, the content type is set on the response
\* before the data is fetched.
getDataController ==
  /\ pc = "controller"
  /\ LET path == decodeURIComponent(Tail(req.path))
         v    == validateAndProcessPath(path)
     IN  IF ~v.ok
         THEN /\ err' = ValidationError(
                          "Path to a Datasphere model is required", "ERR_4001")
              /\ pc' = "error"
              /\ UNCHANGED <<fwdPath, res>>
         ELSE /\ fwdPath' = path
              /\ res' = [res EXCEPT !.contentType = v.contentType]
              /\ pc' = "dataDestination"
              /\ UNCHANGED err
  /\ UNCHANGED <<req, outbound, result>>
  /\ UNCHANGED <<batchOnly, aside>>

\* getDestinationConfig, awaited by getData for the controller: what it
\* throws goes to asyncHandler as it is.
getDataDestination ==
  /\ pc = "dataDestination"
  /\ \E d \in DestinationOutcomes :
       CASE d = "found" ->
              /\ pc' = "dataHttp"
              /\ UNCHANGED <<err, raised>>
         [] d = "nourl" ->
              /\ err' = NotFoundError("Destination not found or missing URL",
                                      "ERR_5002")
              /\ pc' = "error"
              /\ UNCHANGED raised
         [] d = "throws" ->
              /\ err' = PlainError("destination lookup failed")
              /\ pc' = "error"
              /\ raised' = "destination lookup failed"
  /\ UNCHANGED <<req, fwdPath, outbound, result, res>>
  /\ UNCHANGED <<batchOnly, beside>>

\* getData's try block and catch for the controller: executeHttpRequest,
\* then cleanXML if req.path includes "$metadata".  The backend answers a
\* $metadata path with a metadata text, any other path with JSON.
getDataRequest ==
  /\ pc = "dataHttp"
  /\ outbound' = outbound + 1
  /\ \/ /\ ~Includes(fwdPath, <<"$metadata">>)
        /\ \E d \in BackendData :
             result' = [defined |-> TRUE, hasData |-> TRUE, data |-> d]
        /\ pc' = "dataSend"
        /\ UNCHANGED <<err, raised, metadata>>
     \/ /\ Includes(fwdPath, <<"$metadata">>)
        /\ \E xml \in MetadataBodies :
             IF ~Includes(req.path, <<"$metadata">>)
             THEN /\ metadata' = [metadata EXCEPT !.backend = xml, !.data = xml]
                  /\ result' = [defined |-> TRUE, hasData |-> TRUE, data |-> ""]
                  /\ UNCHANGED raised
             ELSE LET cleanedXml == cleanXML(xml)
                  IN  IF cleanedXml.ok
                      THEN /\ metadata' = [metadata EXCEPT
                                             !.backend = xml,
                                             !.data = cleanedXml.text]
                           /\ result' = [defined |-> TRUE, hasData |-> TRUE,
                                         data |-> ""]
                           /\ UNCHANGED raised
                      ELSE \* the Error of cleanXML is no AxiosError
                           /\ metadata' = [metadata EXCEPT !.backend = xml]
                           /\ result' = NoResult
                           /\ raised' = "Error cleaning XML"
        /\ pc' = "dataSend"
        /\ UNCHANGED err
     \/ /\ result' = [defined |-> TRUE, hasData |-> FALSE, data |-> ""]
        /\ pc' = "dataSend"
        /\ UNCHANGED <<err, raised, metadata>>
     \/ \E e \in AxiosErrors :
          /\ err' = classifyAxiosError(e, Includes(req.path, <<"$metadata">>))
          /\ pc' = throwTo(err')
          /\ UNCHANGED <<result, raised, metadata>>
     \/ /\ result' = NoResult
        /\ pc' = "dataSend"
        /\ raised' = "socket hang up"
        /\ UNCHANGED <<err, metadata>>
  /\ UNCHANGED <<req, fwdPath, res>>
  /\ UNCHANGED <<batchOnly, cleaner, now, envelopes>>

\* The controller's getData after its await: res.send(result.data), a
\* TypeError when getData returned undefined.
getDataSend ==
  /\ pc = "dataSend"
  /\ IF ~result.defined
     THEN /\ err' = PlainError(
                      "Cannot read properties of undefined (reading 'data')")
          /\ pc' = "error"
          /\ UNCHANGED <<res, metadata>>
     ELSE /\ res' = [sent |-> TRUE, status |-> 200, kind |-> "data",
                     odataVersion |-> "", contentType |-> res.contentType,
                     body |-> IF result.data = "" THEN <<>> ELSE <<result.data>>,
                     message |-> "", times |-> res.times + 1]
          /\ metadata' = [metadata EXCEPT !.sent = metadata.data]
          /\ pc' = "done"
          /\ UNCHANGED err
  /\ UNCHANGED <<req, fwdPath, outbound, result, raised>>
  /\ UNCHANGED <<batchOnly, cleaner, now, envelopes>>

\* The three routes of the datasphere router.
ServiceNext ==
  \/ Receive
  \/ batchMiddleware
  \/ processBatchRequest
  \/ getDestinationConfig
  \/ executeHttpRequest
  \/ resumeBatchRequest
  \/ handleBatch
  \/ errorHandler
  \/ ReceiveGet
  \/ getRoot
  \/ getDataController
  \/ getDataDestination
  \/ getDataRequest
  \/ getDataSend

ServiceSpec == Init /\ [][ServiceNext]_vars

\* ------------------------------------------------- batch requests side by side
\* Node runs one handler at a time, but a handler gives way at every await:
\* while the outbound call of one batch request is in flight other requests
\* start and resume, and the clock goes on or does not.

\* processBatchRequest of request r up to its await of getData.
awaitData(r) ==
  /\ envelopes[r].stage = "none"
  /\ envelopes' = [envelopes EXCEPT ![r].stage = "awaiting"]
  /\ UNCHANGED <<now, routes, cleaner>>

\* processBatchRequest of request r after the await: transformBatchResponse
\* reads the clock for the batchId.
buildEnvelope(r) ==
  /\ envelopes[r].stage = "awaiting"
  /\ envelopes' = [envelopes EXCEPT
                     ![r] = [stage |-> "enveloped",
                             id    |-> transformBatchResponse(<<"{", "}">>, now).id]]
  /\ UNCHANGED <<now, routes, cleaner>>

\* handleBatch of request r: the headers and the body go out under the
\* batchId of its envelope.
sendEnvelope(r) ==
  /\ envelopes[r].stage = "enveloped"
  /\ envelopes' = [envelopes EXCEPT ![r].stage = "sent"]
  /\ UNCHANGED <<now, routes, cleaner>>

\* A millisecond passes.
tick ==
  /\ now < MaxMillis
  /\ now' = now + 1
  /\ UNCHANGED <<envelopes, routes, cleaner>>

ConcurrentNext ==
  \/ \E r \in Requests : awaitData(r)
  \/ \E r \in Requests : buildEnvelope(r)
  \/ \E r \in Requests : sendEnvelope(r)
  \/ tick

ConcurrentSpec == Init /\ [][ConcurrentNext]_vars

\* --------------------------------------------------------- cleanXML by steps
\* cleanXML is called with a document, and a second time with what the first
\* call resolved to.
CleanInit ==
  /\ InitRoutes
  /\ InitEnvelopes
  /\ \E xmlContent \in Documents \cup {MalformedDocument} :
       cleaner = [NoCleaner EXCEPT !.stage = "called",
                                   !.document = xmlContent,
                                   !.text = xmlContent]

\* const xmlWithFixedPaths = replaceZeroInPath(xmlContent)
cleanFixPaths ==
  /\ cleaner.stage = "called"
  /\ cleaner' = [cleaner EXCEPT !.stage = "fixed",
                                !.text = replaceZeroInPath(cleaner.text)]
  /\ UNCHANGED <<routes, now, envelopes>>

\* const xmlWithoutPrimarykeys = await removePrimarykeys(xmlWithFixedPaths)
cleanRemovePrimarykeys ==
  /\ cleaner.stage = "fixed"
  /\ LET xmlWithoutPrimarykeys == removePrimarykeys(cleaner.text)
     IN  cleaner' = IF xmlWithoutPrimarykeys.ok
                    THEN [cleaner EXCEPT !.stage = "keysRemoved",
                                         !.text = xmlWithoutPrimarykeys.text]
                    ELSE [cleaner EXCEPT !.stage = "rejected"]
  /\ UNCHANGED <<routes, now, envelopes>>

\* const parsedXml = await parseStringPromise(xmlWithoutPrimarykeys)
cleanParse ==
  /\ cleaner.stage = "keysRemoved"
  /\ LET parsedXml == parseStringPromise(cleaner.text)
     IN  cleaner' = IF parsedXml.ok
                    THEN [cleaner EXCEPT !.stage = "parsed",
                                         !.parsedXml = parsedXml]
                    ELSE [cleaner EXCEPT !.stage = "rejected"]
  /\ UNCHANGED <<routes, now, envelopes>>

\* const cleaned = await removeObsolete(parsedXml)
cleanRemoveObsolete ==
  /\ cleaner.stage = "parsed"
  /\ cleaner' = [cleaner EXCEPT !.stage = "cleaned",
                                !.parsedXml.node = removeObsolete(@)]
  /\ UNCHANGED <<routes, now, envelopes>>

\* return builder.buildObject(cleaned)
cleanBuild ==
  /\ cleaner.stage = "cleaned"
  /\ LET built == buildObject(cleaner.parsedXml)
     IN  cleaner' = [cleaner EXCEPT !.stage = "resolved",
                                    !.text = built,
                                    !.outputs = Append(@, built)]
  /\ UNCHANGED <<routes, now, envelopes>>

\* cleanXML is called on its own output.
cleanAgain ==
  /\ cleaner.stage = "resolved"
  /\ Len(cleaner.outputs) = 1
  /\ cleaner' = [cleaner EXCEPT !.stage = "called"]
  /\ UNCHANGED <<routes, now, envelopes>>

CleanNext ==
  \/ cleanFixPaths
  \/ cleanRemovePrimarykeys
  \/ cleanParse
  \/ cleanRemoveObsolete
  \/ cleanBuild
  \/ cleanAgain

CleanSpec == CleanInit /\ [][CleanNext]_vars

\* ------------------------------------------------------ the passes on their own
\* The passes of xml-parser.ts are exported one by one.  Each is applied to a
\* document in depth, then cleanXML is, step by step.
NoPasses ==
  [stage |-> "drawn", document |-> <<>>, text |-> <<>>,
   parsedXml |-> ParseFailure, outputs |-> <<>>,
   fixed |-> <<>>, targets |-> <<>>, names |-> {}, removed |-> <<>>,
   tree |-> Null, pruned |-> Null]

PassInit ==
  /\ InitRoutes
  /\ InitEnvelopes
  /\ \E xmlContent \in DeepDocuments :
       cleaner = [NoPasses EXCEPT !.document = xmlContent,
                                  !.text = xmlContent]

\* replaceZeroInPath(xml)
passReplaceZero ==
  /\ cleaner.stage = "drawn"
  /\ cleaner' = [cleaner EXCEPT !.stage = "rewritten",
                                !.fixed = replaceZeroInPath(cleaner.document)]
  /\ UNCHANGED <<routes, now, envelopes>>

\* await filterTargetsWithoutLabel(xmlContent)
passFilterTargets ==
  /\ cleaner.stage = "rewritten"
  /\ LET parsed == parseStringPromise(cleaner.document)
     IN  cleaner' = [cleaner EXCEPT !.stage = "targeted",
                                    !.targets = filterTargetsWithoutLabel(parsed)]
  /\ UNCHANGED <<routes, now, envelopes>>

\* await removeObsolete(obj), obj the root element of the parsed document
passRemoveObsolete ==
  /\ cleaner.stage = "targeted"
  /\ LET parsed == parseStringPromise(cleaner.document)
     IN  cleaner' = [cleaner EXCEPT !.stage = "pruned",
                                    !.tree = parsed.node,
                                    !.pruned = removeObsolete(parsed.node)]
  /\ UNCHANGED <<routes, now, envelopes>>

\* removePropertyNodeByName(xmlContent, namesToRemove)
passRemoveByName ==
  /\ cleaner.stage = "pruned"
  /\ \E namesToRemove \in NameSets :
       cleaner' = [cleaner EXCEPT
                     !.stage = "removed",
                     !.names = namesToRemove,
                     !.removed = removePropertyNodeByName(cleaner.document,
                                                          namesToRemove)]
  /\ UNCHANGED <<routes, now, envelopes>>

\* await cleanXML(xmlContent) is called, with the document again.
passCleanXML ==
  /\ cleaner.stage = "removed"
  /\ cleaner' = [NoPasses EXCEPT !.stage = "called",
                                 !.document = cleaner.document,
                                 !.text = cleaner.document]
  /\ UNCHANGED <<routes, now, envelopes>>

PassNext ==
  \/ passReplaceZero
  \/ passFilterTargets
  \/ passRemoveObsolete
  \/ passRemoveByName
  \/ passCleanXML
  \/ cleanFixPaths
  \/ cleanRemovePrimarykeys
  \/ cleanParse
  \/ cleanRemoveObsolete
  \/ cleanBuild

PassSpec == PassInit /\ [][PassNext]_vars

\* ------------------------------------------------------------------ claims
Range(f) == {f[i] : i \in DOMAIN f}

\* The number of places at which the text sep occurs in s.
Occurrences(s, sep) == Cardinality({i \in 1..Len(s) : OccursAt(s, sep, i)})

\* The steps of one batch request, in the order of the state machine.
Chain == <<"parsed", "extracted", "forwarded", "enveloped", "sent">>

\* C1: the steps of a batch request happen only in the order parsed,
\* extracted, forwarded, enveloped, sent; a failure ends the sequence at once,
\* no outbound call is made unless the envelope was parsed and the path
\* extracted, and a multipart body reaches the caller only at the end of the
\* whole chain, never after a failure.
C1_StepsInOrderOrFailed ==
  /\ \E n \in 0..Len(Chain) :
       \/ steps = SubSeq(Chain, 1, n)
       \/ n < Len(Chain) /\ steps = Append(SubSeq(Chain, 1, n), "failed")
  /\ outbound > 0 =>
       Len(steps) >= 2 /\ SubSeq(steps, 1, 2) = <<"parsed", "extracted">>
  /\ (res.kind = "multipart" \/ res.body # <<>>) => steps = Chain
  /\ "failed" \in Range(steps) =>
       /\ res.kind # "multipart"
       /\ res.body = <<>>
       /\ pc \in {"error", "done"}

\* A request that failed at path extraction and was answered, with no
\* outbound call.
C1_Witness ==
  /\ pc = "done"
  /\ steps = <<"parsed", "failed">>
  /\ outbound = 0
  /\ res.sent /\ res.kind = "json"

\* C2: the body of the response envelope is exactly the template around the
\* forwarded JSON, under a batchId batch_{millis}: one sub-response, opened
\* by the delimiter and closed by the terminal marker of the same batchId.
C2_EnvelopeLayout ==
  batchResponse.built =>
    LET id   == batchResponse.id
        body == batchResponse.body
    IN  /\ \E t \in Millis : id = <<"batch_", ToString(t)>>
        /\ body = <<"--">> \o id \o <<"CRLF">>
                  \o <<"Content-Type", ":", "sp", "application/http", "CRLF">>
                  \o <<"CRLF">>
                  \o <<"HTTP", "/1.1", "sp", "200", "sp", "OK", "CRLF">>
                  \o <<"Content-Type", ":", "sp", "application/json", "CRLF">>
                  \o <<"CRLF">>
                  \o json \o <<"CRLF">>
                  \o <<"--">> \o id \o <<"--">>
        /\ Occurrences(body, <<"HTTP", "/1.1", "sp", "200", "sp", "OK">>) = 1
        /\ OccursAt(body, <<"--">> \o id \o <<"CRLF">>, 1)
        /\ OccursAt(body, <<"--">> \o id \o <<"--">>, Len(body) - Len(id) - 1)

\* An envelope built around a JSON text and sent.
C2_Witness ==
  /\ batchResponse.built
  /\ json # <<>>
  /\ res.sent
  /\ res.body = batchResponse.body

\* The number a $skip or $top value stands for: 0 when it is absent.
QueryNumber(q) == IF q.kind = "num" THEN q.num ELSE 0

\* C5: on a successful batch request whose $skip and $top are each absent or
\* numeric, the JSON in the envelope sent carries "@odata.count" equal to
\* skip + 2 * top.
C5_CountIsSkipPlusTwiceTop ==
  (res.sent /\ res.kind = "multipart"
     /\ req.skip.kind # "text" /\ req.top.kind # "text") =>
    Occurrences(res.body,
                <<"{", result.data, ",", "\"@odata.count\"", ":",
                  ToString(QueryNumber(req.skip) + 2 * QueryNumber(req.top)),
                  "}", "CRLF">>) = 1

\* $skip=10&$top=5 answered with a count of 20.
C5_Witness ==
  /\ res.sent /\ res.kind = "multipart"
  /\ req.skip = Num(10) /\ req.top = Num(5)
  /\ Includes(res.body, <<"\"@odata.count\"", ":", "20">>)

\* Whether a request has left processBatchRequest's synchronous first part.
PastExtraction == pc \notin {"idle", "middleware", "handler"}

\* Whether the text holds a GET token with an HTTP token somewhere after it.
HasGetThenHttp(body) ==
  LET g == IndexOf(body, <<"GET">>, 1)
  IN  g # 0 /\ IndexOf(body, <<"HTTP">>, g + 1) # 0

\* The path the extraction rule of the specification gives: what stands
\* between the first GET and the first HTTP after it, trimmed and URL-decoded,
\* after the request path without its leading slash, "datasphere/" and
\* "$batch".
SpecifiedPath(body, reqPath) ==
  LET g == IndexOf(body, <<"GET">>, 1)
      h == IndexOf(body, <<"HTTP">>, g + 1)
      root == ReplaceFirst(ReplaceFirst(Tail(reqPath), <<"datasphere", "/">>),
                           <<"$batch">>)
  IN  root \o decodeURIComponent(Trim(SubSeq(body, g + 1, h - 1)))

\* C3: whenever a path was extracted from a first-part body that holds GET
\* and a later HTTP, the path handed on is the specified one: the text
\* between the first GET and the first HTTP after it, trimmed and decoded,
\* after the stripped request path.
C3_ExtractedPathIsSpecified ==
  (PastExtraction /\ batch.defined /\ Len(batch.parts) > 0
     /\ HasGetThenHttp(batch.parts[1].body)) =>
    /\ "extracted" \in Range(steps)
    /\ fwdPath = SpecifiedPath(batch.parts[1].body, req.path)

\* C4: once the handler has looked at a parsed envelope whose part list is
\* empty or whose first body lacks GET followed by HTTP, the request has
\* failed with the invalid-format validation error and no outbound call is
\* ever made for it.
C4_ExtractionFailsWithoutGetThenHttp ==
  (PastExtraction /\ batch.defined
     /\ (Len(batch.parts) = 0 \/ ~HasGetThenHttp(batch.parts[1].body))) =>
    /\ err.name = "ValidationError"
    /\ err.errorCode = "ERR_4002"
    /\ "failed" \in Range(steps)
    /\ outbound = 0

\* C6: a request whose $skip or $top is present but is no number never gets
\* a response envelope: it fails with a pagination error.
C6_NonNumericPaginationFails ==
  (req.skip.kind = "text" \/ req.top.kind = "text") =>
    /\ ~batchResponse.built
    /\ res.kind # "multipart"
    /\ pc = "done" => res.status # 200

\* The header mapping of the header lines hs of a rendered part: each name
\* with the value of its last line.
HeaderMapOf(hs) ==
  [k \in {Trim(hs[i][1]) : i \in 1..Len(hs)} |->
     LET last == CHOOSE i \in 1..Len(hs) :
                   /\ Trim(hs[i][1]) = k
                   /\ \A j \in 1..Len(hs) : Trim(hs[j][1]) = k => j <= i
     IN  Trim(hs[last][2])]

\* Two texts that are equal up to the whitespace around them and the kind of
\* their line terminators.
SameText(a, b) == SplitLines(Trim(a)) = SplitLines(Trim(b))

\* C7: parsing the rendering of one or more well-formed parts under the
\* boundary of the request gives exactly those parts back, in order, each
\* with all its header lines and its body.
C7_EnvelopeRoundTrip ==
  (batch.defined /\ req.rendered /\ Len(sentParts) > 0
     /\ \A i \in 1..Len(sentParts) : ~sentParts[i].raw) =>
    /\ Len(batch.parts) = Len(sentParts)
    /\ \A i \in 1..Len(sentParts) :
         i <= Len(batch.parts) =>
           /\ batch.parts[i].headers = HeaderMapOf(sentParts[i].headers)
           /\ SameText(batch.parts[i].body, sentParts[i].body)

\* C8: for a body that ends with the terminal marker, the parts returned are
\* those of the segments before the marker that are not empty after
\* trimming: the marker and what is left of it give no part.
C8_NoPartFromTerminalMarker ==
  batch.defined =>
    LET end  == boundaryEnd(req.boundary)
        segs == Split(req.body, boundaryDelimiter(req.boundary))
    IN  OccursAt(req.body, end, Len(req.body) - Len(end) + 1) =>
          Len(batch.parts) =
            Cardinality({i \in 1..(Len(segs) - 1) : Trim(segs[i]) # <<>>})

\* The part the specification gives for a segment that has a blank line: the
\* lines before the first blank line are header lines, cut at their first
\* colon; the lines after it are the body.
SpecifiedPart(segment) ==
  LET lines  == SplitLines(Trim(segment))
      blanks == {i \in 1..Len(lines) : Trim(lines[i]) = <<>>}
      first  == CHOOSE k \in blanks : \A j \in blanks : k <= j
      hs     == [i \in 1..(first - 1) |->
                   LET c == colonAt(lines[i])
                   IN  <<SubSeq(lines[i], 1, c - 1),
                         SubSeq(lines[i], c + 1, Len(lines[i]))>>]
  IN  [headers |-> HeaderMapOf(hs),
       body    |-> SubSeq(lines, first + 1, Len(lines))]

\* C9: a rendered part that has a blank line is split at its first blank
\* line: the header mapping holds exactly the lines before it, the body is
\* everything after it.
C9_SplitAtFirstBlankLine ==
  (batch.defined /\ req.rendered) =>
    \A i \in 1..Len(sentParts) :
      (~sentParts[i].raw /\ i <= Len(batch.parts)) =>
        LET want == SpecifiedPart(RenderPart(sentParts[i]))
        IN  /\ batch.parts[i].headers = want.headers
            /\ SplitLines(batch.parts[i].body) = want.body

\* C10: a rendered part without a blank line comes back with an empty
\* header mapping and its whole trimmed text as body, next to the parts of
\* the other segments.
C10_MalformedPartKeptWhole ==
  (batch.defined /\ req.rendered) =>
    /\ Len(batch.parts) >= Len(sentParts)
    /\ \A i \in 1..Len(sentParts) :
         sentParts[i].raw =>
           /\ batch.parts[i].headers = <<>>
           /\ batch.parts[i].body = Trim(RenderPart(sentParts[i]))

\* C11: a multipart/mixed request without a boundary= parameter is answered
\* with status 400 by the middleware: parseBatchBody has not run (req.batch
\* is not set), the batch handler was never entered (no path, no error in
\* flight, no step but the failure) and no outbound call was made.
C11_MissingBoundaryAnswered400 ==
  (req.contentType.multipart /\ ~req.contentType.hasBoundary
     /\ pc \notin {"idle", "middleware"}) =>
    /\ pc = "done"
    /\ res.sent /\ res.status = 400 /\ res.kind = "json" /\ res.times = 1
    /\ ~batch.defined
    /\ steps = <<"failed">>
    /\ fwdPath = <<>> /\ err = NoError /\ ~batchResponse.built
    /\ outbound = 0

\* A rendered envelope of two parts sent without a boundary parameter, and
\* answered.
C11_Witness ==
  /\ pc = "done"
  /\ req.contentType.multipart /\ ~req.contentType.hasBoundary
  /\ req.rendered /\ Len(sentParts) = 2
  /\ res.status = 400

C13_UnexpectedExceptionWrapped ==
  raised # "" =>
    /\ pc \in {"error", "done"}
    /\ "failed" \in Range(steps)
    /\ err.name = "DatasphereBatchError"
    /\ err.originalError = raised

\* C14: a request that failed with a domain error (a BaseError) is answered
\* with a JSON body under the status that the error maps to.
C14_DomainErrorStatusSent ==
  (pc = "done" /\ err.isBase) =>
    /\ res.sent /\ res.kind = "json"
    /\ res.status = err.statusCode

\* C15: a backend error in flight has the status and the retryable flag of
\* its kind: timeout and connection 503 and retryable, auth 401 or 403 and
\* not retryable, not-found 404 and not retryable, metadata and
\* batch-processing retryable.
C15_BackendErrorsFollowTaxonomy ==
  /\ err.name \in {"DatasphereTimeoutError", "DatasphereConnectionError"} =>
       err.statusCode = 503 /\ err.retryable
  /\ err.name = "DatasphereAuthError" =>
       err.statusCode \in {401, 403} /\ ~err.retryable
  /\ err.name = "DatasphereModelError" =>
       err.statusCode = 404 /\ ~err.retryable
  /\ err.name \in {"DatasphereMetadataError", "DatasphereBatchError"} =>
       err.retryable

\* C16: while one request is handled, on the data route or on the batch
\* route, executeHttpRequest is called at most once: not before the request
\* has reached the call, and not again after it, whether the call succeeded
\* or failed with a retryable error, which only goes to the error handler.
C16_AtMostOneOutboundCall ==
  /\ outbound <= 1
  /\ pc \in {"idle", "middleware", "handler", "destination", "http", "root",
             "controller", "dataDestination", "dataHttp"} => outbound = 0
  /\ pc \in {"resume", "respond", "dataSend"} => outbound = 1
  /\ err.retryable => pc \in {"error", "done"}

\* A GET that failed with a retryable timeout after its one call, answered.
C16_Witness ==
  /\ pc = "done"
  /\ req.method = "GET"
  /\ err.name = "DatasphereTimeoutError" /\ err.retryable
  /\ outbound = 1

\* C17: the batchIds of the response envelopes of two different requests
\* differ, however the requests interleave.
C17_BatchIdsDiffer ==
  \A r1, r2 \in Requests :
    (r1 # r2 /\ envelopes[r1].stage \in {"enveloped", "sent"}
             /\ envelopes[r2].stage \in {"enveloped", "sent"}) =>
      envelopes[r1].id # envelopes[r2].id

\* The tags of a text that carry the attribute Name with the value name.
Named(xml, name) ==
  {i \in 1..Len(itemsOf(xml)) :
     \E a \in Range(itemsOf(xml)[i].attrs) : a = <<"Name", name>>}

\* C18: a GET whose path holds "$metadata" is answered with the text that
\* cleanXML makes of the backend's body, as text/xml; a GET whose path does
\* not is answered with the backend's body as it is, and nothing is cleaned.
C18_MetadataIsCleaned ==
  (pc = "done" /\ req.method = "GET" /\ res.status = 200) =>
    IF Includes(fwdPath, <<"$metadata">>)
    THEN /\ res.contentType = <<"text/xml">>
         /\ result.hasData =>
              /\ cleanXML(metadata.backend).ok
              /\ metadata.sent = cleanXML(metadata.backend).text
    ELSE /\ res.contentType = <<>>
         /\ res.body = (IF result.hasData THEN <<result.data>> ELSE <<>>)
         /\ metadata = NoMetadata

\* C19: a second run of cleanXML, on the output of the first, resolves to
\* that same output.
C19_CleaningIsIdempotent ==
  Len(cleaner.outputs) = 2 => cleaner.outputs[2] = cleaner.outputs[1]

\* C20: in the output of cleanXML no element has a Name that starts with
\* "_", and the element named "internal" of the document is still there.
C20_UnderscoreNamesPruned ==
  Len(cleaner.outputs) >= 1 =>
    /\ \A i \in 1..Len(itemsOf(cleaner.outputs[1])) :
         ~startsWith(attribute(itemsOf(cleaner.outputs[1])[i], "Name"), "_")
    /\ Named(cleaner.document, <<"internal">>) # {} =>
         Named(cleaner.outputs[1], <<"internal">>) # {}

\* The tags of a text that are written as obsolete labels: Term is
\* Common.Label and String begins with (obsolete).
ObsoleteLabelsIn(text) ==
  {i \in 1..Len(itemsOf(text)) :
     LET tag == itemsOf(text)[i]
     IN  /\ tag.kind \in {"open", "empty"}
         /\ \E a \in Range(tag.attrs) : a = <<"Term", <<"Common.Label">>>>
         /\ \E a \in Range(tag.attrs) :
              a[1] = "String" /\ a[2] # <<>> /\ a[2][1] = "(obsolete)"}

\* The number of elements that are open at tag i of a text.
RECURSIVE DepthAt(_, _)
DepthAt(items, i) ==
  IF i <= 1 THEN 0
  ELSE DepthAt(items, i - 1)
       + (IF items[i - 1].kind = "open" THEN 1 ELSE 0)
       - (IF items[i].kind = "close" THEN 1 ELSE 0)

ChildrenAt(items, i) ==
  IF items[i].kind # "open" THEN {}
  ELSE LET d   == DepthAt(items, i)
           end == CHOOSE k \in (i + 1)..Len(items) :
                    /\ items[k].kind = "close" /\ DepthAt(items, k) = d
                    /\ \A j \in (i + 1)..(k - 1) :
                         ~(items[j].kind = "close" /\ DepthAt(items, j) = d)
       IN  {j \in (i + 1)..(end - 1) :
              items[j].kind \in {"open", "empty"} /\ DepthAt(items, j) = d + 1}

\* Whether tag i carries a Target that contains /_0 and has no child
\* annotation with Term Common.Label.
MissesLabel(items, i) ==
  /\ items[i].kind \in {"open", "empty"}
  /\ \E a \in Range(items[i].attrs) :
       a[1] = "Target" /\ Includes(a[2], <<"/", "_", "0">>)
  /\ ~\E j \in ChildrenAt(items, i) :
        /\ items[j].name = "Annotation"
        /\ \E a \in Range(items[j].attrs) : a = <<"Term", <<"Common.Label">>>>

\* The Target values of the tags from i on that miss a label, in the order of
\* the document.
RECURSIVE TargetsFrom(_, _)
TargetsFrom(items, i) ==
  IF i > Len(items) THEN <<>>
  ELSE (IF MissesLabel(items, i)
        THEN <<(CHOOSE a \in Range(items[i].attrs) : a[1] = "Target")[2]>>
        ELSE <<>>)
       \o TargetsFrom(items, i + 1)

\* C22: filterTargetsWithoutLabel resolves to the Target values, in document
\* order, of exactly the elements whose Target contains /_0 and that have no
\* child annotation with Term Common.Label, those without any child
\* annotation among them.
C22_TargetsMissingLabel ==
  cleaner.stage = "targeted" =>
    cleaner.targets = TargetsFrom(itemsOf(cleaner.document), 1)

\* Whether a tag is a Property element with a Name among names.
NamedProperty(tag, names) ==
  /\ tag.kind \in {"open", "empty"}
  /\ tag.name = "Property"
  /\ \E a \in Range(tag.attrs) : a[1] = "Name" /\ a[2] \in names

\* The lines of a text whose index is in keep, in their order.
RECURSIVE Pick(_, _, _)
Pick(lines, keep, i) ==
  IF i > Len(lines) THEN <<>>
  ELSE (IF i \in keep THEN <<lines[i]>> ELSE <<>>) \o Pick(lines, keep, i + 1)

\* The text without the lines that are a self-closing Property with a Name
\* among names and without a blank first and a blank last line.
WithoutPropertyLines(lines, names) ==
  Pick(lines,
       {i \in 1..Len(lines) :
          /\ ~(Len(lines[i]) = 1 /\ lines[i][1].kind = "empty"
               /\ NamedProperty(lines[i][1], names))
          /\ ~(lines[i] = <<>> /\ i \in {1, Len(lines)})},
       1)

\* C23: removePropertyNodeByName leaves no Property element with a Name of
\* the given set in the text, whatever its layout in lines, and drops no
\* other line than a self-closing Property line of such a Name or a blank
\* first or last line.
C23_RemovesNamedPropertiesOnly ==
  cleaner.stage = "removed" =>
    /\ \A tag \in Range(itemsOf(cleaner.removed)) :
         ~NamedProperty(tag, cleaner.names)
    /\ cleaner.removed = WithoutPropertyLines(cleaner.document, cleaner.names)

\* The end tag of the start tag i of a text: the first end tag behind it at
\* its depth (0 if there is none).
EndOf(items, i) ==
  LET ends == {k \in (i + 1)..Len(items) :
                 items[k].kind = "close"
                 /\ DepthAt(items, k) = DepthAt(items, i)}
  IN  IF ends = {} THEN 0 ELSE CHOOSE k \in ends : \A j \in ends : k <= j

\* A text is well-formed if every start tag has its end tag of the same name,
\* every end tag is the end tag of a start tag, and there is one root.
WellFormed(text) ==
  LET items == SelectSeq(itemsOf(text), LAMBDA t : t.kind # "decl")
      opens == {i \in 1..Len(items) : items[i].kind = "open"}
  IN  /\ items # <<>>
      /\ \A i \in opens :
           EndOf(items, i) # 0 /\ items[EndOf(items, i)].name = items[i].name
      /\ \A k \in 1..Len(items) :
           items[k].kind = "close" => \E i \in opens : EndOf(items, i) = k
      /\ \A k \in 2..Len(items) :
           items[k].kind # "close" => DepthAt(items, k) >= 1

\* C24: every pass of the cleaning maps a well-formed document to a
\* well-formed text: replaceZeroInPath, removePropertyNodeByName with the
\* given names, removePrimarykeys inside cleanXML, and the tree passes whose
\* result Builder.buildObject writes.
C24_PassesKeepWellFormedness ==
  /\ cleaner.stage = "rewritten" => WellFormed(cleaner.fixed)
  /\ cleaner.stage = "removed" => WellFormed(cleaner.removed)
  /\ cleaner.stage \in {"fixed", "keysRemoved", "resolved"} =>
       WellFormed(cleaner.text)

\* A tag with every Path="0" of an Annotation start tag rewritten to
\* Path="_0" and nothing else changed.
WithZeroPathRewritten(tag) ==
  IF tag.kind \in {"open", "empty"} /\ tag.name = "Annotation"
  THEN [tag EXCEPT !.attrs =
          [i \in 1..Len(tag.attrs) |->
             IF tag.attrs[i] = <<"Path", <<"0">>>>
             THEN <<"Path", <<"_", "0">>>> ELSE tag.attrs[i]]]
  ELSE tag

\* C25: replaceZeroInPath rewrites Path="0" to Path="_0" at every place in
\* an Annotation start tag and leaves every other part of the text as it is:
\* a Path that only begins with 0, an attribute whose name ends in Path, the
\* tags of other elements.
C25_RewritesExactlyZeroPaths ==
  cleaner.stage = "rewritten" =>
    cleaner.fixed =
      [l \in 1..Len(cleaner.document) |->
         [k \in 1..Len(cleaner.document[l]) |->
            WithZeroPathRewritten(cleaner.document[l][k])]]

\* The elements of a tree in the order in which Builder.buildObject writes
\* them, each with its name and its attributes.
ElementsOf(name, node) ==
  LET starts == SelectSeq(itemsOf(buildNode(name, node)),
                          LAMBDA t : t.kind \in {"open", "empty"})
  IN  [i \in 1..Len(starts) |-> <<starts[i].name, starts[i].attrs>>]

\* C29: removeObsolete takes the obsolete labels out of the tree and nothing
\* else: every other element, an empty one without attributes too, is in the
\* result with its attributes, in the same order.
C29_OnlyObsoleteLabelsPruned ==
  cleaner.stage = "pruned" =>
    LET name == parseStringPromise(cleaner.document).name
    IN  ElementsOf(name, cleaner.pruned) =
          SelectSeq(ElementsOf(name, cleaner.tree),
                    LAMBDA e :
                      ~(/\ \E a \in Range(e[2]) : a = <<"Term", <<"Common.Label">>>>
                        /\ \E a \in Range(e[2]) :
                             /\ a[1] = "String" /\ a[2] # <<>>
                             /\ a[2][1] = "(obsolete)"))

\* C26: when cleanXML rejects the metadata text of a $metadata GET, getData
\* throws that error on at once, the caller is answered with it, and no
\* metadata text, cleaned or not, is sent.
C26_CleaningFailureSurfaces ==
  raised = "Error cleaning XML" =>
    /\ pc \in {"error", "done"}
    /\ err.message = "Error cleaning XML"
    /\ metadata.data = <<>> /\ metadata.sent = <<>>
    /\ pc = "done" => res.sent /\ res.status >= 400
                      /\ res.message = "Error cleaning XML"

\* The tests of getData's catch that an upstream failure passes, by the
\* place of the test in the catch.
TestsPassed(e, onMetadataPath) ==
  {k \in 1..6 :
     \/ k = 1 /\ "timeout" \in e.includes
     \/ k = 2 /\ "network" \in e.includes
     \/ k = 3 /\ e.includes \cap {"401", "403"} # {}
     \/ k = 4 /\ "404" \in e.includes
     \/ k = 5 /\ onMetadataPath
     \/ k = 6}

\* The error kind of each test.
KindOfTest ==
  <<"DatasphereTimeoutError", "DatasphereConnectionError",
    "DatasphereAuthError", "DatasphereModelError", "DatasphereMetadataError",
    "DatasphereConnectionError">>

\* The upstream failures an error in flight was made of.
CausesOf(error) ==
  {e \in AxiosErrors :
     error.originalError =
       (IF e.responseMessage # "" THEN e.responseMessage ELSE e.message)}

\* C27: the error made of an upstream failure is the one of the first test,
\* in the order timeout, network, 401/403, 404, $metadata path, otherwise,
\* that the failure passes; a metadata error is made only of a failure on a
\* $metadata path that passes none of the four tests before.
C27_FirstMatchingTestDecides ==
  \A e \in CausesOf(err) :
    LET passed == TestsPassed(e, Includes(req.path, <<"$metadata">>))
        first  == CHOOSE k \in passed : \A j \in passed : k <= j
    IN  /\ err.name = KindOfTest[first]
        /\ err.name = "DatasphereMetadataError" =>
             Includes(req.path, <<"$metadata">>) /\ passed = {5, 6}
        /\ first = 2 => err.message =
             "Failed to connect to Datasphere. Please check your network connection."
        /\ first = 6 => err.message =
             "An error occurred while communicating with Datasphere."

\* A failure on a $metadata path whose message passes two of the tests
\* before the path test has been classified.
C27_Witness ==
  /\ pc = "error"
  /\ Includes(req.path, <<"$metadata">>)
  /\ \E e \in CausesOf(err) :
       Cardinality(TestsPassed(e, TRUE) \cap 1..4) = 2

\* What extractBatchPath makes of the first part the client wrote, parsed on
\* its own.
FirstPartAlone ==
  extractBatchPath(parsePart(RenderPart(sentParts[1])).body, req.path)

\* C28: of an envelope with one part or more only the first part is
\* forwarded: the path handed to getData and to the outbound call is the one
\* of the first part alone; a request fails before any call exactly when its
\* first part alone gives no path; a batch that succeeds has made one
\* outbound call, and its envelope holds one sub-response, made of the
\* backend's data and the query of the request and of nothing else.
C28_OnlyFirstPartForwarded ==
  /\ pc \in {"destination", "http"} =>
       /\ Len(sentParts) >= 1
       /\ FirstPartAlone.ok
       /\ fwdPath = FirstPartAlone.path
  /\ (pc = "error" /\ batch.defined /\ Len(sentParts) >= 1
        /\ "extracted" \notin Range(steps)) => ~FirstPartAlone.ok
  /\ outbound >= 1 => "extracted" \in Range(steps)
  /\ batchResponse.built =>
       /\ outbound = 1
       /\ Occurrences(batchResponse.body, <<"HTTP", "/1.1">>) = 1
       /\ \E t \in Millis :
            batchResponse.body =
              transformBatchResponse(
                JSONStringify(result.data,
                              odataCount(OrZero(Number(req.skip)),
                                         OrZero(Number(req.top)))),
                t).body

\* A batch of two different parts has been answered with an envelope.
C28_Witness ==
  /\ pc = "done"
  /\ Len(sentParts) = 2
  /\ sentParts[1] # sentParts[2]
  /\ extractBatchPath(parsePart(RenderPart(sentParts[2])).body, req.path)
       # FirstPartAlone
  /\ batchResponse.built
  /\ res.body = batchResponse.body

\* How far a request has come: every step of a route takes it further.
Progress ==
  [idle |-> 0, middleware |-> 1, handler |-> 2, destination |-> 3, http |-> 4,
   resume |-> 5, respond |-> 6, root |-> 1, controller |-> 1,
   dataDestination |-> 3, dataHttp |-> 4, dataSend |-> 5, error |-> 7,
   done |-> 8]

\* C30: a request to one of the three routes is answered once.  No response
\* is written before the request is done with, one is written when it is,
\* whether by a handler, by batchMiddleware's catch or by errorHandler, and
\* none after; every step takes the request further along its route, so that
\* no step is taken twice and the only place where a request rests is the
\* one where it has its response.
C30_ExactlyOneResponse ==
  /\ [](/\ res.times <= 1
        /\ pc = "done" => res.sent /\ res.times = 1
        /\ pc # "done" => ~res.sent /\ res.times = 0)
  /\ [][/\ Progress[pc'] > Progress[pc]
        /\ res'.times = res.times + (IF pc' = "done" THEN 1 ELSE 0)]_vars

\* A batch request whose outbound call has timed out has been answered, by
\* errorHandler and once.
C30_Witness ==
  /\ pc = "done"
  /\ res.times = 1
  /\ req.method = "POST"
  /\ outbound = 1
  /\ err.name = "DatasphereTimeoutError"
  /\ res.status = 500

====
